---- MODULE Spec2Model ----
(***************************************************************************)
(* Model of the C entry points of obj2string (WFObjectToString.cpp):       *)
(* WFObjectToString, WFObjectToStrings, WFObjectRandomVariations,          *)
(* testGraphConstruction, fixVariation and StringToWFObject.               *)
(*                                                                         *)
(* Graph, CollisionDetector, GrammarCheck, Wiggle, GraphToStringConverter  *)
(* and VariationGenerator are classes of the repository whose sources are  *)
(* not part of the modelled files; they are modelled from their written    *)
(* description.  Geometry is abstracted to one dimension: a part is a unit *)
(* segment at an integer position, and two parts touch (epsilon = 0) when  *)
(* their positions differ by at most one.                                  *)
(***************************************************************************)
EXTENDS Integers, Sequences, FiniteSets, TLC

VARIABLES
    \* ---- fixVariation (repair) ----
    disk,                    \* the directory of object files the caller names
    pc,                      \* position inside fixVariation
    obj1, obj2, obj3,        \* the two exemplars and the repair target
    pose0,                   \* the target's part poses as read from file
    graph3,                  \* collision graph of the target before repair
    rules,                   \* grammarCheck: permitted (type, type) pairs
    nodeTypes,               \* node types of the target taken before repair
    templates,               \* wiggle: (type, type, relative pose) templates
    numCorrections,          \* wiggle.numCorrections
    debugOutputLocalFrames,  \* wiggle.debugOutputLocalFrames
    i,                       \* loop index of the pass loop
    passes,                  \* calls of fixRelativeTransformations in this call
    status,                  \* value returned by fixVariation
    outFile,                 \* <<object>> written by WFObjectFileExporter, or NoFile
    convergedInvalidStatus   \* status of the last call that converged to an invalid object

repairVars == <<disk, pc, obj1, obj2, obj3, pose0, graph3, rules, nodeTypes, templates,
                numCorrections, debugOutputLocalFrames, i, passes,
                status, outFile, convergedInvalidStatus>>

VARIABLES
    \* ---- the string-returning entry points and the retained buffer ----
    cfg,                     \* threads calling the entry points, files on disk
    th,                      \* per thread: position and locals of its call
    outputString,            \* the global char * outputString
    heap,                    \* state of every buffer the allocator can hand out
    calls,                   \* calls begun so far
    hazards,                 \* undefined behaviour that has happened
    raced                    \* two calls have been past their NULL test at once

apiVars == <<cfg, th, outputString, heap, calls, hazards, raced>>

VARIABLES
    \* ---- testGraphConstruction ----
    gpc,                     \* position inside testGraphConstruction
    aGraphSize,
    adjacencyMatrixHost,
    testGraph,
    adjacencyMatrixDevice,
    newGrapSize,
    \* ---- StringToWFObject ----
    lpc,                     \* position inside StringToWFObject
    graph1, graph2,          \* collision graphs of the two exemplars
    lines,                   \* the three lines read last from aInputString
    edgeTypes1, edgeTypes2,  \* edge labels of the two exemplars
    target                   \* keys3, vals3, edgeTypes3 and the graph built of them

graphVars == <<gpc, aGraphSize, adjacencyMatrixHost, testGraph,
               adjacencyMatrixDevice, newGrapSize>>

labelVars == <<lpc, graph1, graph2, lines, edgeTypes1, edgeTypes2, target>>

vars == <<repairVars, apiVars, graphVars, labelVars>>

notRepair == <<apiVars, graphVars, labelVars>>

notApi == <<repairVars, graphVars, labelVars>>

notGraph == <<repairVars, apiVars, labelVars>>

notLabel == <<repairVars, apiVars, graphVars>>

-----------------------------------------------------------------------------
(* Bounds of the model and constants of the program. *)

MaxParts == 3        \* parts of a repair target
MaxPos == 2          \* part positions of an input object are in 0..MaxPos
NumTypes == 2        \* part types (material ids) are in 1..NumTypes
MaxCallParts == 4    \* the same two bounds for a caller that calls repeatedly
MaxCallPos == 3
MaxPasses == 128     \* the cap of the pass loop

NoFile == << >>
NoStatus == -1
Types == 1..NumTypes

-----------------------------------------------------------------------------
(* Graph: compact adjacency structure.  intervals has numNodes + 1 entries, *)
(* adjacencyKeys / adjacencyVals hold the endpoints of the stored edges.    *)
(* Node ids are 0-based; At reads a 0-based array held as a sequence.       *)

At(s, k) == s[k + 1]

Min(a, b) == IF a < b THEN a ELSE b

Max(a, b) == IF a < b THEN b ELSE a

Abs(a) == IF a < 0 THEN -a ELSE a

numNodes(g) == Len(g.intervals) - 1

numEdges(g) == Len(g.adjacencyVals)

\* Mutant: only the cells above the diagonal become edges.
fromAdjacencyMatrix_upperOnly(M, n) ==
    LET cells == [k \in 1..(n * n) |-> k - 1]
        IsOne(c) == At(M, c) = 1 /\ c \div n < c % n
        ones == SelectSeq(cells, IsOne)
        keys == [e \in 1..Len(ones) |-> ones[e] \div n]
        vals == [e \in 1..Len(ones) |-> ones[e] % n]
    IN  [intervals |-> [r \in 1..(n + 1) |->
                           Cardinality({e \in 1..Len(ones) : keys[e] < r - 1})],
         adjacencyKeys |-> keys,
         adjacencyVals |-> vals]

fromAdjacencyMatrix(M, n) ==
    LET cells == [k \in 1..(n * n) |-> k - 1]
        IsOne(c) == At(M, c) = 1
        ones == SelectSeq(cells, IsOne)
        keys == [e \in 1..Len(ones) |-> ones[e] \div n]
        vals == [e \in 1..Len(ones) |-> ones[e] % n]
    IN  [intervals |-> [r \in 1..(n + 1) |->
                           Cardinality({e \in 1..Len(ones) : keys[e] < r - 1})],
         adjacencyKeys |-> keys,
         adjacencyVals |-> vals]

toAdjacencyMatrix(g) ==
    LET n == numNodes(g)
    IN  [k \in 1..(n * n) |->
            IF \E e \in 1..numEdges(g) :
                   g.adjacencyKeys[e] * n + g.adjacencyVals[e] = k - 1
            THEN 1 ELSE 0]

-----------------------------------------------------------------------------
(* Objects and the collision detector.  An object has n parts 0..n-1; each  *)
(* part has a type (the material of its first face) and a pose.             *)

Object(n, type, pos) == [n |-> n, type |-> type, pos |-> pos]

Touching(obj, u, v) == u # v /\ Abs(obj.pos[u] - obj.pos[v]) <= 1

computeCollisionGraph(obj) ==
    LET n == obj.n
        M == [k \in 1..(n * n) |->
                 IF Touching(obj, (k - 1) \div n, (k - 1) % n) THEN 1 ELSE 0]
    IN  fromAdjacencyMatrix(M, n)

MaterialOfPart(obj, nodeId) == obj.type[nodeId]

ComputeNodeTypes(obj, g) ==
    [nodeId \in 0..(numNodes(g) - 1) |-> MaterialOfPart(obj, nodeId)]

-----------------------------------------------------------------------------
(* GrammarCheck *)

EdgeIdsOf(intervals, u) == (At(intervals, u) + 1)..At(intervals, u + 1)

GrammarInit(rs, obj, intervals, nbrIds) ==
    rs \cup { <<obj.type[u], obj.type[nbrIds[e]]>> :
                 <<u, e>> \in { p \in (0..(Len(intervals) - 2)) \X (1..Len(nbrIds)) :
                                  p[2] \in EdgeIdsOf(intervals, p[1]) } }

GrammarCheck(rs, intervals, nbrIds, types) ==
    \A u \in 0..(Len(intervals) - 2) :
        \A e \in EdgeIdsOf(intervals, u) :
            <<types[u], types[nbrIds[e]]>> \in rs

-----------------------------------------------------------------------------
(* Wiggle *)

WiggleInit(ts, obj, g) ==
    ts \cup { <<obj.type[g.adjacencyKeys[e]], obj.type[g.adjacencyVals[e]],
                obj.pos[g.adjacencyVals[e]] - obj.pos[g.adjacencyKeys[e]]>> :
                 e \in 1..numEdges(g) }

TemplatesFor(ts, t1, t2) == { t[3] : t \in { x \in ts : x[1] = t1 /\ x[2] = t2 } }

\* The edges (u, v), u < v, of g whose relative pose matches no template.
DeviatingEdges(ts, obj, g) ==
    { e \in 1..numEdges(g) :
        LET u == g.adjacencyKeys[e]
            v == g.adjacencyVals[e]
        IN  /\ u < v
            /\ obj.pos[v] - obj.pos[u] \notin TemplatesFor(ts, obj.type[u], obj.type[v]) }

\* The poses a correction of edge e may give its second part.
CorrectedPoses(ts, obj, g, e) ==
    LET u == g.adjacencyKeys[e]
        v == g.adjacencyVals[e]
    IN  { obj.pos[u] + d : d \in TemplatesFor(ts, obj.type[u], obj.type[v]) }

\* One pass: the poses it may leave, corrections computed from the poses
\* before the pass and applied after it.
PassResults(ts, obj, g) ==
    LET dev == DeviatingEdges(ts, obj, g)
        parts == 0..(obj.n - 1)
        choices == [v \in parts |->
                      LET cand == UNION { CorrectedPoses(ts, obj, g, e) :
                                            e \in { d \in dev : g.adjacencyVals[d] = v } }
                      IN  IF cand = {} THEN {obj.pos[v]} ELSE cand]
    IN  { p \in [parts -> UNION { choices[v] : v \in parts }] :
            \A v \in parts : p[v] \in choices[v] }

-----------------------------------------------------------------------------
(* Inputs of fixVariation *)

\* An exemplar: two touching parts of types a and b.
Exemplar(a, b) == Object(2, [p \in 0..1 |-> <<a, b>>[p + 1]], [p \in 0..1 |-> p])

ExemplarObjects == { Exemplar(t[1], t[2]) : t \in Types \X Types }

ObjectsUpTo(maxParts, maxPos) ==
    UNION { { Object(n, ty, ps) : ty \in [0..(n - 1) -> Types],
                                  ps \in [0..(n - 1) -> 0..maxPos] } :
            n \in 0..maxParts }

TargetObjects == ObjectsUpTo(MaxParts, MaxPos)

\* The object files of a directory.  "all": every exemplar, small targets;
\* "calls": one exemplar file used twice, larger targets.
Files(dir) ==
    IF dir = "all"
    THEN [exemplars |-> ExemplarObjects, targets |-> TargetObjects]
    ELSE [exemplars |-> {Exemplar(1, NumTypes)},
          targets |-> ObjectsUpTo(MaxCallParts, MaxCallPos)]

-----------------------------------------------------------------------------
(* fixVariation *)

NoObject == Object(0, << >>, << >>)

NoGraph == [intervals |-> <<0>>, adjacencyKeys |-> << >>, adjacencyVals |-> << >>]

\* Mutant: the cap is tested off by one.
LoopGuard_offByOne(k) == k <= MaxPasses

LoopGuard(k) == k < MaxPasses

\* Mutant: the result of the first grammar check is ignored.
TargetRejected_ignored(rs, g, types) == FALSE

TargetRejected(rs, g, types) ==
    ~GrammarCheck(rs, g.intervals, g.adjacencyVals, types)

\* Mutant: the object is written whatever the second check says.
WriteAllowed_always(debug, rs, g, types) == TRUE

WriteAllowed(debug, rs, g, types) ==
    debug \/ GrammarCheck(rs, g.intervals, g.adjacencyVals, types)

RepairStart(dir, debugs) ==
    /\ disk = dir
    /\ pc = "idle"
    /\ obj1 = NoObject /\ obj2 = NoObject /\ obj3 = NoObject
    /\ pose0 = << >>
    /\ graph3 = NoGraph
    /\ rules = {}
    /\ nodeTypes = << >>
    /\ templates = {}
    /\ numCorrections = 0
    /\ debugOutputLocalFrames \in debugs
    /\ i = 0
    /\ passes = 0
    /\ status = NoStatus
    /\ outFile = NoFile
    /\ convergedInvalidStatus = NoStatus

RepairInit == RepairStart("all", BOOLEAN)

\* Lines 182-218: read the three objects, build the grammar, check the
\* target, load the templates.
Begin ==
    /\ pc = "idle"
    /\ \E o1 \in Files(disk).exemplars, o2 \in Files(disk).exemplars,
          o3 \in Files(disk).targets :
        LET g1 == computeCollisionGraph(o1)
            g2 == computeCollisionGraph(o2)
            g3 == computeCollisionGraph(o3)
            rs == GrammarInit(GrammarInit({}, o1, g1.intervals, g1.adjacencyVals),
                              o2, g2.intervals, g2.adjacencyVals)
            types == ComputeNodeTypes(o3, g3)
        IN  /\ obj1' = o1 /\ obj2' = o2 /\ obj3' = o3
            /\ pose0' = o3.pos
            /\ graph3' = g3
            /\ rules' = rs
            /\ nodeTypes' = types
            /\ IF TargetRejected(rs, g3, types)
               THEN /\ status' = 1
                    /\ pc' = "done"
                    /\ templates' = {}
               ELSE /\ status' = NoStatus
                    /\ pc' = "loop"
                    /\ templates' = WiggleInit(WiggleInit({}, o1, g1), o2, g2)
    /\ numCorrections' = 0
    /\ i' = 0
    /\ passes' = 0
    /\ outFile' = NoFile
    /\ UNCHANGED <<disk, debugOutputLocalFrames, convergedInvalidStatus>>
    /\ UNCHANGED notRepair

\* Lines 221-226: one iteration of the pass loop.
Pass ==
    /\ pc = "loop"
    /\ LoopGuard(i)
    /\ numCorrections' = Cardinality(DeviatingEdges(templates, obj3, graph3))
    /\ \E p \in PassResults(templates, obj3, graph3) :
          obj3' = [obj3 EXCEPT !.pos = p]
    /\ passes' = passes + 1
    /\ IF numCorrections' = 0
       THEN /\ pc' = "post" /\ i' = i
       ELSE /\ pc' = "loop" /\ i' = i + 1
    /\ UNCHANGED <<disk, obj1, obj2, pose0, graph3, rules, nodeTypes, templates,
                   debugOutputLocalFrames, status, outFile, convergedInvalidStatus>>
    /\ UNCHANGED notRepair

\* Lines 228-252: recompute the collision graph, validate, write or fail.
Validate ==
    /\ pc = "post" \/ (pc = "loop" /\ ~LoopGuard(i))
    /\ LET modifiedGraph == computeCollisionGraph(obj3)
           valid == GrammarCheck(rules, modifiedGraph.intervals,
                                 modifiedGraph.adjacencyVals, nodeTypes)
           st == IF WriteAllowed(debugOutputLocalFrames, rules, modifiedGraph, nodeTypes)
                 THEN 0 ELSE 2
       IN  /\ status' = st
           /\ outFile' = IF st = 0 THEN <<obj3>> ELSE NoFile
           /\ convergedInvalidStatus' =
                 IF numCorrections = 0 /\ ~valid THEN st ELSE convergedInvalidStatus
    /\ pc' = "done"
    /\ UNCHANGED <<disk, obj1, obj2, obj3, pose0, graph3, rules, nodeTypes, templates,
                   numCorrections, debugOutputLocalFrames, i, passes>>
    /\ UNCHANGED notRepair

\* The caller receives the status and the locals of the call are destroyed; the
\* next call may begin.
Return ==
    /\ pc = "done"
    /\ pc' = "idle"
    /\ obj1' = NoObject /\ obj2' = NoObject /\ obj3' = NoObject
    /\ pose0' = << >>
    /\ graph3' = NoGraph
    /\ rules' = {}
    /\ nodeTypes' = << >>
    /\ templates' = {}
    /\ numCorrections' = 0
    /\ i' = 0
    /\ passes' = 0
    /\ status' = NoStatus
    /\ outFile' = NoFile
    /\ UNCHANGED <<disk, debugOutputLocalFrames, convergedInvalidStatus>>
    /\ UNCHANGED notRepair

-----------------------------------------------------------------------------
(* Text.  A text is a sequence of characters; "\n" is the line break.       *)

RECURSIVE Concat(_)
Concat(ss) == IF ss = << >> THEN << >> ELSE Head(ss) \o Concat(Tail(ss))

\* std::string::find_first_of("\n"): the 0-based index, or Len (npos) if none.
FindFirstOf(s, c) ==
    IF \E k \in 1..Len(s) : s[k] = c
    THEN (CHOOSE k \in 1..Len(s) : s[k] = c /\ \A j \in 1..(k - 1) : s[j] # c) - 1
    ELSE Len(s)

\* std::string::find_last_of("\n"): the 0-based index, or Len (npos) if none.
FindLastOf(s, c) ==
    IF \E k \in 1..Len(s) : s[k] = c
    THEN (CHOOSE k \in 1..Len(s) : s[k] = c /\ \A j \in (k + 1)..Len(s) : s[j] # c) - 1
    ELSE Len(s)

\* std::string::substr(0, count)
Substr0(s, count) == SubSeq(s, 1, Min(count, Len(s)))

-----------------------------------------------------------------------------
(* The object files on disk and the stochastic converters.  A converter     *)
(* sample is a pair <<structure line, node id line>>, each ended by "\n".   *)

NumResamples == 10   \* resamples appended to the base encoding
MaxCalls == 3        \* calls of the entry points in one behaviour

NULL == 0
EmptyLiteral == -1   \* the string literal "" returned for a disconnected graph

AllFiles == {"chain", "single", "apart"}

FewFiles == {"single", "apart"}

isConnected(f) == f # "apart"

\* GraphToStringConverter: the samples it may produce for an object.
ConverterSamples(f) ==
    CASE f = "chain" -> { << <<"a", "b", "\n">>, <<"0", "1", "\n">> >>,
                          << <<"b", "a", "\n">>, <<"1", "0", "\n">> >> }
      [] f = "single" -> { << <<"a", "\n">>, <<"0", "\n">> >> }
      [] f = "apart" -> { << <<"a", ".", "b", "\n">>, <<"0", "1", "\n">> >> }

\* VariationGenerator: the descriptions it may return.
VariationTexts == { <<"a", "b", "\n">>, << >> }

\* Lines 38-40: the first line of the first sample.
ToStringResult(sample) == Substr0(sample[1], FindFirstOf(sample[1], "\n"))

\* Mutant: one resample too few.
ResampleCount_short == NumResamples - 1

ResampleCount == NumResamples

\* Lines 66-78: the base sample and the resamples appended, then the node ids
\* without their last line break.
ToStringsResult(samples, aAppendNodeIds) ==
    LET first == Concat([k \in 1..Len(samples) |-> samples[k][1]])
        second == Concat([k \in 1..Len(samples) |-> samples[k][2]])
    IN  IF aAppendNodeIds
        THEN first \o Substr0(second, FindLastOf(second, "\n"))
        ELSE first

-----------------------------------------------------------------------------
(* The entry points, one step per access to the retained buffer.  A read of *)
(* outputString that follows an earlier read or write by the same call may  *)
(* give the earlier value (kept in a register) or the current one.          *)

Threads == {1, 2}

Buffers == 1..MaxCalls

Region == {"free", "alloc", "copy", "ret"}

IdleThread ==
    [pc |-> "idle", fn |-> "none", file |-> "none", append |-> FALSE,
     samples |-> << >>, result |-> << >>, seen |-> NULL, mine |-> NULL,
     ret |-> NULL]

ApiIdle ==
    /\ cfg = [threads |-> {}, files |-> {}]
    /\ th = [t \in Threads |-> IdleThread]
    /\ outputString = NULL
    /\ heap = [b \in Buffers |-> "unused"]
    /\ calls = 0
    /\ hazards = {}
    /\ raced = FALSE

ApiInit(threads, files) ==
    /\ cfg = [threads |-> threads, files |-> files]
    /\ th = [t \in Threads |-> IdleThread]
    /\ outputString = NULL
    /\ heap = [b \in Buffers |-> "unused"]
    /\ calls = 0
    /\ hazards = {}
    /\ raced = FALSE

Racing(t2) == \A t \in Threads : t2[t].pc \in Region

\* The thread's call takes a step to the locals nt; nothing global changes.
LocalStep(t, nt) ==
    /\ th' = [th EXCEPT ![t] = nt]
    /\ raced' = (raced \/ Racing(th'))

\* Mutant: the new buffer becomes the retained one only if there was none.
Installed_onlyIfNull(b) == IF outputString = NULL THEN b ELSE outputString

\* Line 45 / 83 / 108: outputString = new char[...].
Installed(b) == b

\* Lines 27-40 of WFObjectToString.
BeginToString(t) ==
    /\ t \in cfg.threads /\ th[t].pc = "idle" /\ calls < MaxCalls
    /\ \E f \in cfg.files : \E s \in ConverterSamples(f) :
          LocalStep(t, [IdleThread EXCEPT !.pc = "check", !.fn = "ToString",
                            !.file = f, !.samples = <<s>>,
                            !.result = ToStringResult(s)])
    /\ calls' = calls + 1
    /\ UNCHANGED <<cfg, outputString, heap, hazards>>
    /\ UNCHANGED notApi

\* Lines 53-78 of WFObjectToStrings.
BeginToStrings(t) ==
    /\ t \in cfg.threads /\ th[t].pc = "idle" /\ calls < MaxCalls
    /\ \E f \in cfg.files, a \in BOOLEAN :
          IF ~isConnected(f)
          THEN LocalStep(t, [IdleThread EXCEPT !.pc = "done", !.fn = "ToStrings",
                                !.file = f, !.append = a, !.ret = EmptyLiteral])
          ELSE \E ss \in [1..(ResampleCount + 1) -> ConverterSamples(f)] :
                  LocalStep(t, [IdleThread EXCEPT !.pc = "check", !.fn = "ToStrings",
                                    !.file = f, !.append = a, !.samples = ss,
                                    !.result = ToStringsResult(ss, a)])
    /\ calls' = calls + 1
    /\ UNCHANGED <<cfg, outputString, heap, hazards>>
    /\ UNCHANGED notApi

\* Lines 91-106 of WFObjectRandomVariations: no test and no free follow.
BeginRandomVariations(t) ==
    /\ t \in cfg.threads /\ th[t].pc = "idle" /\ calls < MaxCalls
    /\ \E f1 \in cfg.files, f2 \in cfg.files, r \in VariationTexts :
          LocalStep(t, [IdleThread EXCEPT !.pc = "alloc", !.fn = "RandomVariations",
                            !.file = f1, !.result = r])
    /\ calls' = calls + 1
    /\ UNCHANGED <<cfg, outputString, heap, hazards>>
    /\ UNCHANGED notApi

\* Lines 42 / 80: if (outputString != NULL)
Check(t) ==
    /\ th[t].pc = "check"
    /\ IF outputString # NULL
       THEN LocalStep(t, [th[t] EXCEPT !.pc = "free", !.seen = outputString])
       ELSE LocalStep(t, [th[t] EXCEPT !.pc = "alloc"])
    /\ UNCHANGED <<cfg, outputString, heap, calls, hazards>>
    /\ UNCHANGED notApi

\* Lines 43 / 81: free(outputString)
Free(t) ==
    /\ th[t].pc = "free"
    /\ \E p \in {th[t].seen, outputString} :
          /\ heap' = [heap EXCEPT ![p] = "freed"]
          /\ hazards' = IF heap[p] = "live" THEN hazards
                        ELSE hazards \cup {"doubleFree"}
    /\ LocalStep(t, [th[t] EXCEPT !.pc = "alloc"])
    /\ UNCHANGED <<cfg, outputString, calls>>
    /\ UNCHANGED notApi

\* Lines 45 / 83 / 108: outputString = new char[result.length() + 1]
Alloc(t) ==
    /\ th[t].pc = "alloc"
    /\ \E b \in Buffers :
          /\ heap[b] = "unused"
          /\ \A c \in Buffers : heap[c] = "unused" => b <= c
          /\ heap' = [heap EXCEPT ![b] = "live"]
          /\ outputString' = Installed(b)
          /\ LocalStep(t, [th[t] EXCEPT !.pc = "copy", !.mine = Installed(b)])
    /\ UNCHANGED <<cfg, calls, hazards>>
    /\ UNCHANGED notApi

\* Lines 46 / 84 / 109: strcpy(outputString, result.c_str())
Copy(t) ==
    /\ th[t].pc = "copy"
    /\ \E p \in {th[t].mine, outputString} :
          hazards' = IF heap[p] = "live" THEN hazards
                     ELSE hazards \cup {"writeFreed"}
    /\ LocalStep(t, [th[t] EXCEPT !.pc = "ret"])
    /\ UNCHANGED <<cfg, outputString, heap, calls>>
    /\ UNCHANGED notApi

\* Lines 48 / 86 / 111: return outputString
Ret(t) ==
    /\ th[t].pc = "ret"
    /\ \E p \in {th[t].mine, outputString} :
          /\ hazards' = IF heap[p] = "live" THEN hazards
                        ELSE hazards \cup {"returnFreed"}
          /\ LocalStep(t, [th[t] EXCEPT !.pc = "done", !.ret = p])
    /\ UNCHANGED <<cfg, outputString, heap, calls>>
    /\ UNCHANGED notApi

\* The caller has the result; the locals of the call are destroyed.
Finish(t) ==
    /\ th[t].pc = "done"
    /\ LocalStep(t, IdleThread)
    /\ UNCHANGED <<cfg, outputString, heap, calls, hazards>>
    /\ UNCHANGED notApi

ApiNext ==
    \E t \in Threads :
        \/ BeginToString(t)
        \/ BeginToStrings(t)
        \/ BeginRandomVariations(t)
        \/ Check(t)
        \/ Free(t)
        \/ Alloc(t)
        \/ Copy(t)
        \/ Ret(t)
        \/ Finish(t)

-----------------------------------------------------------------------------
(* testGraphConstruction: a random symmetric 0/1 matrix is turned into a    *)
(* graph and back, and the two matrices are compared cell by cell.          *)

MaxGraphSize == 3

\* The symmetric 0/1 matrices of size n, row-major.
SymmetricMatrices(n) ==
    { M \in [1..(n * n) -> {0, 1}] :
        \A r \in 0..(n - 1), c \in 0..(n - 1) : At(M, r * n + c) = At(M, c * n + r) }

\* The cells in which the matrix read back differs from the one given.
WrongCells(device, host, n) ==
    { c \in 0..(n * n - 1) : c >= Len(device) \/ At(device, c) # At(host, c) }

GraphIdle ==
    /\ gpc = "idle"
    /\ aGraphSize = 0
    /\ adjacencyMatrixHost = << >>
    /\ testGraph = NoGraph
    /\ adjacencyMatrixDevice = << >>
    /\ newGrapSize = 0

GraphInit ==
    /\ gpc = "start"
    /\ aGraphSize \in 0..MaxGraphSize
    /\ adjacencyMatrixHost \in SymmetricMatrices(aGraphSize)
    /\ testGraph = NoGraph
    /\ adjacencyMatrixDevice = adjacencyMatrixHost
    /\ newGrapSize = 0

BuildGraph ==
    /\ gpc = "start"
    /\ testGraph' = fromAdjacencyMatrix(adjacencyMatrixDevice, aGraphSize)
    /\ adjacencyMatrixDevice' = << >>
    /\ gpc' = "built"
    /\ UNCHANGED <<aGraphSize, adjacencyMatrixHost, newGrapSize>>
    /\ UNCHANGED notGraph

ReadBack ==
    /\ gpc = "built"
    /\ adjacencyMatrixDevice' = toAdjacencyMatrix(testGraph)
    /\ newGrapSize' = numNodes(testGraph)
    /\ gpc' = "converted"
    /\ UNCHANGED <<aGraphSize, adjacencyMatrixHost, testGraph>>
    /\ UNCHANGED notGraph

Compare ==
    /\ gpc = "converted"
    /\ gpc' = IF WrongCells(adjacencyMatrixDevice, adjacencyMatrixHost, aGraphSize) = {}
              THEN "same" ELSE "differs"
    /\ UNCHANGED <<aGraphSize, adjacencyMatrixHost, testGraph, adjacencyMatrixDevice,
                   newGrapSize>>
    /\ UNCHANGED notGraph

GraphNext == BuildGraph \/ ReadBack \/ Compare

-----------------------------------------------------------------------------
(* StringToWFObject: the edge labels of the two exemplars are read from the *)
(* first six lines of aInputString, the target graph from the last three.   *)

MaxTriples == 2               \* tokens of one line of aInputString
UnknownEdgeType == -1         \* (unsigned int)-1, held as the integer -1

Junk == -2                    \* a token operator>> cannot read as a number

NodeTokens == {0, 1}

TypeTokens == {5, 7, Junk}

IsNumber(tok) == tok \in Nat

\* operator>> on a line: the tokens read before the first failure.
RECURSIVE Extractable(_)
Extractable(line) ==
    IF line = << >> \/ ~IsNumber(Head(line)) THEN 0 ELSE 1 + Extractable(Tail(line))

\* Iterations of while (a >> node_1 && b >> node_2 && c >> edge_type).
ParsedCount(ls) ==
    Min(Extractable(ls[1]), Min(Extractable(ls[2]), Extractable(ls[3])))

\* Mutant: only the first endpoint is compared.
EdgeMatches_keyOnly(keys, vals, edgeId, node_1, node_2) == At(keys, edgeId) = node_1

\* Line 291 / 316.
EdgeMatches(keys, vals, edgeId, node_1, node_2) ==
    At(keys, edgeId) = node_1 /\ At(vals, edgeId) = node_2

\* Lines 289-296: the first matching edge gets the type, then break.
LabelOne(g, types, node_1, node_2, edge_type) ==
    LET hits == { edgeId \in 0..(numEdges(g) - 1) :
                    EdgeMatches(g.adjacencyKeys, g.adjacencyVals, edgeId, node_1, node_2) }
    IN  IF hits = {} THEN types
        ELSE LET first == CHOOSE h \in hits : \A o \in hits : h <= o
             IN  [types EXCEPT ![first + 1] = edge_type]

RECURSIVE LabelLoop(_, _, _, _, _)
LabelLoop(g, types, ls, k, n) ==
    IF k > n THEN types
    ELSE LabelLoop(g, LabelOne(g, types, ls[1][k], ls[2][k], ls[3][k]), ls, k + 1, n)

\* Lines 280-297 / 306-322.
LabelEdges(g, ls) ==
    LabelLoop(g, [e \in 1..numEdges(g) |-> UnknownEdgeType], ls, 1, ParsedCount(ls))

\* Graph::fromAdjacencyList(nodeCount, false): the pairs and their mirrors.
fromAdjacencyList(keys, vals, nodeCount) ==
    fromAdjacencyMatrix(
        [c \in 1..(nodeCount * nodeCount) |->
            IF \E e \in 1..Len(keys) :
                  \/ keys[e] * nodeCount + vals[e] = c - 1
                  \/ vals[e] * nodeCount + keys[e] = c - 1
            THEN 1 ELSE 0],
        nodeCount)

RECURSIVE MaxOf(_)
MaxOf(sq) == IF sq = << >> THEN 0 ELSE Max(Head(sq), MaxOf(Tail(sq)))

\* Lines 332-351.
ReadTargetGraph(ls) ==
    LET n == ParsedCount(ls)
        keys3 == SubSeq(ls[1], 1, n)
        vals3 == SubSeq(ls[2], 1, n)
        max_node_id == Max(MaxOf(keys3), MaxOf(vals3))
    IN  [keys3 |-> keys3, vals3 |-> vals3, edgeTypes3 |-> SubSeq(ls[3], 1, n),
         graph3 |-> fromAdjacencyList(keys3, vals3, max_node_id + 1)]

RECURSIVE SeqsUpTo(_, _)
SeqsUpTo(S, n) ==
    IF n = 0 THEN { << >> }
    ELSE LET shorter == SeqsUpTo(S, n - 1)
         IN  shorter \cup { Append(q, x) : q \in { r \in shorter : Len(r) = n - 1 }, x \in S }

\* The three lines one group of aInputString may hold.
LineGroups ==
    SeqsUpTo(NodeTokens, MaxTriples) \X SeqsUpTo(NodeTokens, MaxTriples)
        \X SeqsUpTo(TypeTokens, MaxTriples)

\* The exemplar files: two touching parts, a chain of three, two parts apart.
LabelObjects ==
    { Object(2, [p \in 0..1 |-> 1], [p \in 0..1 |-> p]),
      Object(3, [p \in 0..2 |-> 1], [p \in 0..2 |-> p]),
      Object(2, [p \in 0..1 |-> 1], [p \in 0..1 |-> 2 * p]) }

NoTarget == [keys3 |-> << >>, vals3 |-> << >>, edgeTypes3 |-> << >>, graph3 |-> NoGraph]

LabelIdle ==
    /\ lpc = "idle"
    /\ graph1 = NoGraph /\ graph2 = NoGraph
    /\ lines = << << >>, << >>, << >> >>
    /\ edgeTypes1 = << >> /\ edgeTypes2 = << >>
    /\ target = NoTarget

\* Lines 262-270: the exemplars are read and their collision graphs computed.
LabelInit ==
    /\ lpc = "start"
    /\ graph1 \in { computeCollisionGraph(o) : o \in LabelObjects }
    /\ graph2 \in { computeCollisionGraph(o) : o \in LabelObjects }
    /\ lines = << << >>, << >>, << >> >>
    /\ edgeTypes1 = << >> /\ edgeTypes2 = << >>
    /\ target = NoTarget

NoLines == << << >>, << >>, << >> >>

\* std::getline, three times: the next three lines of aInputString become
\* the streams the extraction loop reads.
ReadLines(from, to) ==
    /\ lpc = from
    /\ lines' \in LineGroups
    /\ lpc' = to
    /\ UNCHANGED <<graph1, graph2, edgeTypes1, edgeTypes2, target>>
    /\ UNCHANGED notLabel

\* Lines 272-278.
ReadLines1 == ReadLines("start", "read1")

\* Lines 280-297; the streams are left drained.
LabelExemplar1 ==
    /\ lpc = "read1"
    /\ edgeTypes1' = LabelEdges(graph1, lines)
    /\ lines' = NoLines
    /\ lpc' = "labelled1"
    /\ UNCHANGED <<graph1, graph2, edgeTypes2, target>>
    /\ UNCHANGED notLabel

\* Lines 299-304.
ReadLines2 == ReadLines("labelled1", "read2")

\* Lines 306-322.
LabelExemplar2 ==
    /\ lpc = "read2"
    /\ edgeTypes2' = LabelEdges(graph2, lines)
    /\ lines' = NoLines
    /\ lpc' = "labelled2"
    /\ UNCHANGED <<graph1, graph2, edgeTypes1, target>>
    /\ UNCHANGED notLabel

\* Lines 325-330.
ReadLines3 == ReadLines("labelled2", "read3")

\* Lines 332-359.
BuildTarget ==
    /\ lpc = "read3"
    /\ target' = ReadTargetGraph(lines)
    /\ lines' = NoLines
    /\ lpc' = "done"
    /\ UNCHANGED <<graph1, graph2, edgeTypes1, edgeTypes2>>
    /\ UNCHANGED notLabel

LabelNext ==
    \/ ReadLines1 \/ LabelExemplar1
    \/ ReadLines2 \/ LabelExemplar2
    \/ ReadLines3 \/ BuildTarget

-----------------------------------------------------------------------------
(* Specifications.  Each one runs one group of entry points; the variables  *)
(* of the other groups stay at rest.                                        *)

RepairIdle == RepairStart("all", {FALSE})

\* One call of fixVariation.
Init == RepairInit /\ ApiIdle /\ GraphIdle /\ LabelIdle

Next == Begin \/ Pass \/ Validate

Spec == Init /\ [][Next]_vars

\* A caller that calls fixVariation again and again, in the build as compiled
\* (line 219: the debug flag is never set).
NextCalls == Begin \/ Pass \/ Validate \/ Return

InitCalls == RepairStart("calls", {FALSE}) /\ ApiIdle /\ GraphIdle /\ LabelIdle

SpecCalls == InitCalls /\ [][NextCalls]_vars

\* The string-returning entry points called one after the other, from one
\* thread.
InitSeq == RepairIdle /\ ApiInit({1}, AllFiles) /\ GraphIdle /\ LabelIdle

SpecSeq == InitSeq /\ [][ApiNext]_vars

\* Two threads calling them with no synchronisation.
InitConc == RepairIdle /\ ApiInit({1, 2}, FewFiles) /\ GraphIdle /\ LabelIdle

SpecConc == InitConc /\ [][ApiNext]_vars

\* One call of testGraphConstruction.
InitGraph == RepairIdle /\ ApiIdle /\ GraphInit /\ LabelIdle

SpecGraph == InitGraph /\ [][GraphNext]_vars

\* One call of StringToWFObject.
InitLabel == RepairIdle /\ ApiIdle /\ GraphIdle /\ LabelInit

SpecLabel == InitLabel /\ [][LabelNext]_vars

-----------------------------------------------------------------------------
(* Claims about the string-returning entry points *)

IsPrefix(p, s) == Len(p) <= Len(s) /\ SubSeq(s, 1, Len(p)) = p

\* C6: WFObjectToStrings returns the empty text, with no converter sample
\* taken, when the collision graph is not connected; when it is connected it
\* returns a non-empty text in a live buffer that starts with the base sample
\* followed by the 10 resamples, 11 samples having been taken.
C6_ConnectivityGate ==
    \A t \in Threads :
        (th[t].pc = "done" /\ th[t].fn = "ToStrings") =>
            IF ~isConnected(th[t].file)
            THEN /\ th[t].ret = EmptyLiteral
                 /\ th[t].samples = << >>
            ELSE /\ th[t].ret \in Buffers
                 /\ heap[th[t].ret] = "live"
                 /\ Len(th[t].samples) = NumResamples + 1
                 /\ th[t].result # << >>
                 /\ IsPrefix(Concat([k \in 1..(NumResamples + 1) |->
                                        th[t].samples[k][1]]), th[t].result)

\* A connected object was encoded with node ids, the resamples differing
\* from the base sample.
C6_Witness ==
    /\ th[1].pc = "done" /\ th[1].fn = "ToStrings" /\ th[1].file = "chain"
    /\ th[1].append
    /\ \E k \in 2..Len(th[1].samples) : th[1].samples[k] # th[1].samples[1]

\* C9: with calls made one after the other, every buffer that is still
\* allocated is the retained one: a call that installs a buffer has released
\* the one retained before.
C9_SingleRetained ==
    \A b \in Buffers : heap[b] = "live" => b = outputString

\* C10: two unsynchronised calls can free the same retained buffer twice or
\* return a buffer the other call has freed; this happens only when both
\* calls were past their NULL test at the same time.
C10_HazardOnlyWhenRacing ==
    (hazards \cap {"doubleFree", "returnFreed"}) # {} => raced

\* Both calls read the same retained buffer and both freed it.
C10_Witness ==
    /\ "doubleFree" \in hazards
    /\ th[1].seen # NULL /\ th[1].seen = th[2].seen
    /\ th[1].pc = "alloc" /\ th[2].pc = "alloc"
    /\ th[1].fn \in {"ToString", "ToStrings"}
    /\ th[2].fn \in {"ToString", "ToStrings"}

-----------------------------------------------------------------------------
(* Claims about testGraphConstruction and StringToWFObject *)

\* C7: for every size n, 0 included, and every symmetric 0/1 matrix of that
\* size, the matrix read back from the graph built of it has the same size
\* and the same value in every cell.
C7_RoundTrip ==
    gpc \in {"converted", "same", "differs"} =>
        /\ newGrapSize = aGraphSize
        /\ Len(adjacencyMatrixDevice) = aGraphSize * aGraphSize
        /\ \A k \in 1..(aGraphSize * aGraphSize) :
              adjacencyMatrixDevice[k] = adjacencyMatrixHost[k]

\* A matrix with an edge, a self loop and an absent edge went round.
C7_Witness ==
    /\ gpc = "converted"
    /\ aGraphSize >= 3
    /\ At(adjacencyMatrixHost, 1) = 1 /\ At(adjacencyMatrixHost, aGraphSize) = 1
    /\ At(adjacencyMatrixHost, 0) = 1
    /\ At(adjacencyMatrixHost, 2) = 0

\* The triples of a line group: the positions up to which all three lines
\* hold numbers.
TripleCount(ls) ==
    Cardinality({ k \in 1..MaxTriples + 1 :
                    \A j \in 1..k : \A l \in 1..3 : j <= Len(ls[l]) /\ ls[l][j] >= 0 })

\* types is the label array of g for the line group ls.
LabelledBy(g, ls, types) ==
    /\ Len(types) = numEdges(g)
    /\ \A e \in 1..numEdges(g) :
          LET hits == { k \in 1..TripleCount(ls) :
                          /\ ls[1][k] = g.adjacencyKeys[e]
                          /\ ls[2][k] = g.adjacencyVals[e] }
          IN  IF hits = {} THEN types[e] = UnknownEdgeType
              ELSE types[e] = ls[3][CHOOSE k \in hits : \A o \in hits : o <= k]

\* C8: for each exemplar the label array has one entry per stored edge; an
\* edge carries the type of the (last) triple whose (node1, node2) are its
\* stored (key, val), and -1 when no triple is; a triple that matches no
\* stored edge changes nothing.  Labelling the second exemplar leaves the
\* labels of the first alone.
C8_LabelsFollowTriples ==
    [][ /\ (lpc = "read1" /\ lpc' = "labelled1") =>
              LabelledBy(graph1, lines, edgeTypes1')
        /\ (lpc = "read2" /\ lpc' = "labelled2") =>
              LabelledBy(graph2, lines, edgeTypes2') /\ edgeTypes1' = edgeTypes1
      ]_vars

\* Both exemplars are labelled, some edges with a type and some left unknown.
C8_Witness ==
    /\ lpc = "labelled2"
    /\ \E e \in 1..Len(edgeTypes1) : edgeTypes1[e] = 7
    /\ \E e \in 1..Len(edgeTypes1) : edgeTypes1[e] = UnknownEdgeType
    /\ \E e \in 1..Len(edgeTypes2) : edgeTypes2[e] = 5
    /\ \E e \in 1..Len(edgeTypes2) : edgeTypes2[e] = UnknownEdgeType

-----------------------------------------------------------------------------
(* Claims about fixVariation *)

RecomputedValid ==
    LET modifiedGraph == computeCollisionGraph(obj3)
    IN  GrammarCheck(rules, modifiedGraph.intervals, modifiedGraph.adjacencyVals,
                     nodeTypes)

\* The exemplar holds two touching parts of types t1 and t2.
ExemplarHasTouching(o, t1, t2) ==
    \E u \in 0..(o.n - 1), v \in 0..(o.n - 1) :
        Touching(o, u, v) /\ o.type[u] = t1 /\ o.type[v] = t2

\* C1: in one call of fixVariation, fixRelativeTransformations runs at most 128
\* times, and a pass runs only as the first pass of the call or after a pass
\* that ended with a correction counter other than zero.
C1_PassBound ==
    /\ [](passes <= MaxPasses)
    /\ [][passes' = passes + 1 => (passes = 0 \/ numCorrections # 0)]_vars

\* The cap was reached: 128 passes ran and the last one still corrected.
C1_Witness == pc = "done" /\ passes = MaxPasses /\ numCorrections # 0

\* C2: for a target of two parts of types T1 and T2 that do not touch, both
\* exemplars holding touching T1 and T2 parts, the call never returns 0 with
\* the two parts still not touching (stated for the build without the debug
\* bypass, where only the grammar check decides the status).
C2_NeverSilentlyNonTouching ==
    ( /\ pc = "done"
      /\ ~debugOutputLocalFrames
      /\ obj3.n = 2
      /\ obj3.type[0] # obj3.type[1]
      /\ Abs(pose0[0] - pose0[1]) > 1
      /\ ExemplarHasTouching(obj1, obj3.type[0], obj3.type[1])
      /\ ExemplarHasTouching(obj2, obj3.type[0], obj3.type[1]) )
    => \/ status = 0 /\ Touching(obj3, 0, 1)
       \/ status = 2

\* C3: a target whose collision graph fails the grammar check makes the call
\* return 1 with no template loaded, no pass run, the poses as read and no
\* object written.
C3_RejectedUntouched ==
    ( /\ pc \in {"loop", "post", "done"}
      /\ ~GrammarCheck(rules, graph3.intervals, graph3.adjacencyVals, nodeTypes) )
    => /\ pc = "done"
       /\ status = 1
       /\ templates = {}
       /\ passes = 0
       /\ obj3.pos = pose0
       /\ outFile = NoFile

C3_Witness == pc = "done" /\ status = 1 /\ numEdges(graph3) > 0

\* C4: a call that used up its 128 passes without a pass of zero corrections
\* returns a status other than the one returned by a call whose passes
\* converged and whose recomputed graph failed the grammar check (stated for
\* the build without the debug bypass, as the source compiles it).
C4_DistinctStatus ==
    ( /\ pc = "done"
      /\ ~debugOutputLocalFrames
      /\ status # 1
      /\ numCorrections # 0
      /\ convergedInvalidStatus # NoStatus )
    => status # convergedInvalidStatus

\* C5: after the pass loop the recomputed collision graph is checked with the
\* node types taken before the repair; the object is written and 0 returned
\* exactly when the check passes or the debug flag is set, otherwise nothing
\* is written and 2 is returned; the status is 0, 1 or 2 and a written object
\* comes only with status 0.
C5_ValidatedWrite ==
    /\ outFile # NoFile => pc = "done" /\ status = 0
    /\ pc = "done" =>
          /\ status \in {0, 1, 2}
          /\ status # 1 =>
                IF RecomputedValid \/ debugOutputLocalFrames
                THEN status = 0 /\ outFile = <<obj3>>
                ELSE status = 2 /\ outFile = NoFile

\* The repair ran, its result failed the check and nothing was written.
C5_Witness == pc = "done" /\ passes > 0 /\ status = 2 /\ ~RecomputedValid

====
